---- MODULE Spec2Model ----
(***************************************************************************)
(* Sorted-set index of pkg/database/sorted_set.go: ZAdd, ZScan, SafeZAdd   *)
(* and getSortedSetKeyVal, over the append-only store they call.           *)
(*                                                                         *)
(* Keys, values and reference payloads are byte strings, modelled as       *)
(* sequences of small naturals ("bytes" 0..7).  A transaction is the       *)
(* write-set it committed (a function key -> value); the store is the log  *)
(* of transactions, and the ordered index maps every key to the last       *)
(* transaction that wrote it.                                              *)
(***************************************************************************)
EXTENDS Integers, Sequences, FiniteSets, TLC

VARIABLES
    txs,      \* the store's transaction log: txs[i] is the write-set of transaction i
    corrupt,  \* value-log slots damaged on disk: records [off, bytes] of the bytes now there
    dtx,      \* d.tx, the transaction scratch shared by every call on the db
    scan,     \* the ZScan call in flight, or the last one that returned
    zadd,     \* the ZAdd call in flight, or the last one that returned
    safezadd  \* the last SafeZAdd call that returned

vars == <<txs, corrupt, dtx, scan, zadd, safezadd>>

----------------------------------------------------------------------------
(* Bounds of the model *)

\* number of transactions the store may hold
MaxTx == 3
\* largest limit a ZScan request carries
MaxLimit == 1

\* member keys written by plain Set calls
PlainKeys == {<<1>>, <<2>>}
\* the value a plain Set writes in transaction id
PlainValue(id) == <<4 + id>>
\* the set the callers work on
SharedSet == <<3>>
\* scores given to ZAdd
Scores == {-1, 2}
\* scores given as min and as max of a ZScan
MinScores == {0}
MaxScores == {3}

----------------------------------------------------------------------------
(* Optional values: <<>> is nil, <<x>> is a pointer to x *)

Nil == <<>>
Some(x) == <<x>>
IsNil(o) == o = <<>>
Val(o) == o[1]

(* Byte strings *)

HasPrefix(s, p) ==
    /\ Len(p) <= Len(s)
    /\ \A i \in 1..Len(p) : s[i] = p[i]

\* bytes.Compare(a, b) < 0
LexLess(a, b) ==
    \E i \in 1..(Len(a) + 1) :
        /\ \A j \in 1..(i - 1) : j <= Len(b) /\ a[j] = b[j]
        /\ \/ i = Len(a) + 1 /\ Len(b) >= i
           \/ i <= Len(a) /\ i <= Len(b) /\ a[i] < b[i]

LexLeq(a, b) == a = b \/ LexLess(a, b)

RECURSIVE SortKeys(_)
SortKeys(S) ==
    IF S = {} THEN <<>>
    ELSE LET m == CHOOSE x \in S : \A y \in S \ {x} : LexLess(x, y)
         IN  <<m>> \o SortKeys(S \ {m})

RECURSIVE Reverse(_)
Reverse(s) == IF s = <<>> THEN <<>> ELSE Reverse(Tail(s)) \o <<Head(s)>>

----------------------------------------------------------------------------
(* Score codec.  A score is a sign-magnitude number (as an IEEE-754 double *)
(* is); here 1 sign bit and 2 magnitude bits, so the bit pattern is 0..7.  *)

ScoreLen == 1

Float64bits(s) == IF s < 0 THEN 4 + (0 - s) ELSE s

\* order-preserving: all bits inverted for a negative score, the sign bit
\* flipped otherwise
EncodeScore(s) ==
    LET bits == Float64bits(s)
    IN  <<IF bits >= 4 THEN 7 - bits ELSE bits + 4>>

DecodeScore(b) ==
    LET bits == IF b[1] >= 4 THEN b[1] - 4 ELSE 7 - b[1]
    IN  IF bits >= 4 THEN 0 - (bits - 4) ELSE bits

----------------------------------------------------------------------------
(* Composite keys and reference payloads (package common) *)

SortedSetSeparator == <<0>>

WrapSeparatorToSet(set) == SortedSetSeparator \o set

AppendScoreToSet(set, score) == SortedSetSeparator \o set \o EncodeScore(score)

\* index: Nil, or Some(transaction id)
BuildSetKey(key, set, score, index) ==
    SortedSetSeparator \o set \o EncodeScore(score) \o key
        \o (IF IsNil(index) THEN <<>> ELSE <<Val(index)>>)

\* the score field of a composite key of `set`
SetKeyScore(key, set) ==
    LET at == Len(SortedSetSeparator) + Len(set)
    IN  DecodeScore(SubSeq(key, at + 1, at + ScoreLen))

WrapIndexReference(key, index) ==
    <<Len(key)>> \o key
        \o (IF IsNil(index) THEN <<0>> ELSE <<1, Val(index)>>)

UnwrapIndexReference(ref) ==
    LET klen == ref[1]
        flag == ref[klen + 2]
    IN  [key   |-> SubSeq(ref, 2, klen + 1),
         flag  |-> flag,
         index |-> IF flag = 1 THEN ref[klen + 3] ELSE 0]

----------------------------------------------------------------------------
(* Errors *)

NoErr == "nil"
ErrIndexKeyMismatch == "ErrIndexKeyMismatch"
ErrKeyNotFound == "ErrKeyNotFound"
ErrTxNotFound == "ErrTxNotFound"
ErrCorruptedData == "ErrCorruptedData"
ErrCommit == "ErrStoreCommit"
ErrSnapshot == "ErrStoreSnapshot"
ErrReader == "ErrSnapshotReader"
ErrRead == "ErrReaderRead"

\* fmt.Errorf("unexpected error %v during %s", err, "Reference")
WrapCommitError(err) == "unexpected error " \o err \o " during Reference"

----------------------------------------------------------------------------
(* The store (embedded/store, embedded/tbtree), as sorted_set.go uses it *)

\* the keys indexed when `snap` transactions had been committed
KeysAt(snap) == UNION {DOMAIN txs[i] : i \in 1..snap}

\* the last of the first `snap` transactions that wrote k
LastTs(snap, k) ==
    CHOOSE i \in 1..snap :
        /\ k \in DOMAIN txs[i]
        /\ \A j \in (i + 1)..snap : k \notin DOMAIN txs[j]

\* content hash of a value
Hash(bytes) == <<"sha256", bytes>>

\* d.st.ReadTx(id, tx): loads transaction `id` into the scratch
ReadTx(id) ==
    IF id \in 1..Len(txs)
    THEN [err |-> NoErr, tx |-> id]
    ELSE [err |-> ErrTxNotFound, tx |-> 0]

\* d.st.ReadValue(tx, key): the value `key` was given in the loaded transaction
ReadValue(tx, key) ==
    IF tx \in 1..Len(txs) /\ key \in DOMAIN txs[tx]
    THEN [err |-> NoErr, val |-> txs[tx][key]]
    ELSE [err |-> ErrKeyNotFound, val |-> <<>>]

\* d.Get(key): the current value of key and the transaction that wrote it
Get(key) ==
    IF key \in KeysAt(Len(txs))
    THEN LET ts == LastTs(Len(txs), key)
         IN  [err |-> NoErr,
              item |-> [Key |-> key, Value |-> txs[ts][key], Index |-> ts]]
    ELSE [err |-> ErrKeyNotFound, item |-> [Key |-> <<>>, Value |-> <<>>, Index |-> 0]]

\* d.st.ReadValueAt(buf, off, hVal): fills the buffer with the bytes now on
\* disk and reports a mismatch with the expected hash
ReadValueAt(off, hVal) ==
    LET bytes == IF \E c \in corrupt : c.off = off
                 THEN (CHOOSE c \in corrupt : c.off = off).bytes
                 ELSE txs[off[1]][off[2]]
    IN  [val |-> bytes,
         err |-> IF Hash(bytes) = hVal THEN NoErr ELSE ErrCorruptedData]

\* d.st.Snapshot(): the view of the index at this moment
Snapshot == Len(txs)

\* what reader.Read() yields for key k of a snapshot: the key, the value
\* pointer (length, offset, hash) and the entry's transaction
IndexEntry(snap, k) ==
    LET ts == LastTs(snap, k)
    IN  [key |-> k,
         val |-> [valLen |-> Len(txs[ts][k]), vOff |-> <<ts, k>>, hVal |-> Hash(txs[ts][k])],
         ts  |-> ts]

\* snapshot.Reader(ReaderSpec{IsPrefix, InitialKey, AscOrder}): the keys the
\* reader will yield, in order.  Iteration starts at InitialKey and moves
\* up (AscOrder) or down; in prefix mode only keys that have InitialKey as
\* a prefix are yielded.
Reader(snap, rspec) ==
    LET from == {k \in KeysAt(snap) :
                    /\ IF rspec.AscOrder THEN LexLeq(rspec.InitialKey, k)
                                         ELSE LexLeq(k, rspec.InitialKey)
                    /\ rspec.IsPrefix => HasPrefix(k, rspec.InitialKey)}
    IN  IF rspec.AscOrder THEN SortKeys(from) ELSE Reverse(SortKeys(from))

\* d.st.Commit(kvs): appends one transaction holding the write-set kvs
Commit(kvs) == Append(txs, kvs)

\* the accumulated linear hash the store returns with a commit
Alh(id) == <<"alh", id>>

----------------------------------------------------------------------------
(* getSortedSetKeyVal and ZAdd *)

ZAddIdle ==
    [pc |-> "idle", opts |-> Nil, ik |-> <<>>, ref |-> <<>>, root |-> Nil, err |-> NoErr]

ZAddReturn(z, root, err) ==
    [z EXCEPT !.pc = "done", !.ik = <<>>, !.ref = <<>>, !.root = root, !.err = err]

\* lines 207-212: the composite key and the reference payload
ZAddBuilt(z, index) ==
    [z EXCEPT !.pc = "commit",
              !.ik = BuildSetKey(Val(z.opts).Key, Val(z.opts).Set, Val(z.opts).Score, index),
              !.ref = WrapIndexReference(Val(z.opts).Key, index)]

\* lines 179-183 and 196-206: the first store call of the validation.
\* The result is the call's next state and the scratch d.tx after it.
getSortedSetKeyValBegin(opts, d) ==
    LET z == [ZAddIdle EXCEPT !.opts = Some(opts)]
    IN  IF ~IsNil(opts.Index)
        THEN LET r == ReadTx(Val(opts.Index))
             IN  IF r.err # NoErr
                 THEN [call |-> ZAddReturn(z, Nil, r.err), dtx |-> d]
                 ELSE [call |-> [z EXCEPT !.pc = "readValue"], dtx |-> r.tx]
        ELSE LET i == Get(opts.Key)
             IN  IF i.err # NoErr
                 THEN [call |-> ZAddReturn(z, Nil, i.err), dtx |-> d]
                 ELSE IF i.item.Key # opts.Key
                 THEN [call |-> ZAddReturn(z, Nil, ErrIndexKeyMismatch), dtx |-> d]
                 ELSE [call |-> ZAddBuilt(z, Nil), dtx |-> d]

\* getSortedSetKeyValCheck, were the key looked up in the store instead of
\* in the pinned transaction
getSortedSetKeyValCheckAnywhere(z, d) ==
    IF Get(Val(z.opts).Key).err # NoErr
    THEN [call |-> ZAddReturn(z, Nil, ErrIndexKeyMismatch), dtx |-> d]
    ELSE [call |-> ZAddBuilt(z, Val(z.opts).Index), dtx |-> d]

\* lines 184-194: the key must be in the transaction the scratch holds
getSortedSetKeyValCheck(z, d) ==
    IF ReadValue(d, Val(z.opts).Key).err # NoErr
    THEN [call |-> ZAddReturn(z, Nil, ErrIndexKeyMismatch), dtx |-> d]
    ELSE [call |-> ZAddBuilt(z, Val(z.opts).Index), dtx |-> d]

\* getSortedSetKeyVal(zaddOpts, false), run without interruption
getSortedSetKeyVal(opts, d) ==
    LET b == getSortedSetKeyValBegin(opts, d)
    IN  IF b.call.pc = "readValue" THEN getSortedSetKeyValCheck(b.call, b.dtx) ELSE b

\* ZAddCommit, were the member key written again beside the new entry
ZAddCommitTouchingKey(z, fails) ==
    IF fails
    THEN [call |-> ZAddReturn(z, Nil, WrapCommitError(ErrCommit)), txs |-> txs]
    ELSE LET id == Len(txs) + 1
         IN  [call |-> ZAddReturn(z, Some([Index |-> id, Root |-> Alh(id)]), NoErr),
              txs |-> Commit((z.ik :> z.ref) @@ (Val(z.opts).Key :> z.ref))]

\* lines 26-36: the commit of the one key/value pair and the result;
\* `fails` is whether the store's commit fails
ZAddCommit(z, fails) ==
    IF fails
    THEN [call |-> ZAddReturn(z, Nil, WrapCommitError(ErrCommit)), txs |-> txs]
    ELSE LET id == Len(txs) + 1
         IN  [call |-> ZAddReturn(z, Some([Index |-> id, Root |-> Alh(id)]), NoErr),
              txs |-> Commit((z.ik :> z.ref))]

----------------------------------------------------------------------------
(* ZScan *)

ErrNilDereference == "panic: nil pointer dereference"

\* math.MaxUint64, here the largest number the checker counts to
MaxUint64 == 2147483647

\* a ZScan call: its options, the store call that is to fail (none: Nil),
\* the snapshot, the ReaderSpec handed to snapshot.Reader, the keys the
\* reader has yet to yield, the number of reader.Read() calls made, the
\* reference being resolved, the items collected, the resources opened, the
\* deferred Close calls, the resources closed (in order), and the result
ZScanIdle ==
    [pc |-> "idle", opts |-> Nil, fault |-> Nil, snap |-> 0, rspec |-> Nil,
     rd |-> <<>>, nread |-> 0, cur |-> Nil, items |-> <<>>,
     opened |-> <<>>, defers |-> <<>>, closed |-> <<>>,
     list |-> Nil, err |-> NoErr]

\* the n-th call of store operation `call` made by sc is the one that fails
Fails(sc, call, n) ==
    ~IsNil(sc.fault) /\ Val(sc.fault).call = call /\ Val(sc.fault).nth = n

\* OffsetKey, were min the start whenever it is supplied
OffsetKeyFromMin(options) ==
    IF Len(options.Offset) > 0 THEN options.Offset
    ELSE IF ~IsNil(options.Min)
    THEN AppendScoreToSet(options.Set, Val(options.Min))
    ELSE IF ~IsNil(options.Max) /\ options.Reverse
    THEN AppendScoreToSet(options.Set, Val(options.Max))
    ELSE WrapSeparatorToSet(options.Set)

\* lines 49-64: the key the reader starts at
OffsetKey(options) ==
    IF Len(options.Offset) > 0 THEN options.Offset
    ELSE IF ~IsNil(options.Max) /\ options.Reverse
    THEN AppendScoreToSet(options.Set, Val(options.Max))
    ELSE IF ~IsNil(options.Min) /\ ~options.Reverse
    THEN AppendScoreToSet(options.Set, Val(options.Min))
    ELSE WrapSeparatorToSet(options.Set)

\* lines 72-75: the ReaderSpec handed to snapshot.Reader
ZScanReaderSpec(options) ==
    [IsPrefix |-> TRUE, InitialKey |-> OffsetKey(options), AscOrder |-> options.Reverse]

\* RunDefers, were the deferred calls run in the order they were deferred
RunDefersInOrder(sc) ==
    [sc EXCEPT !.closed = sc.closed \o sc.defers, !.defers = <<>>]

\* the deferred Close calls (lines 70, 79) run as the function returns,
\* the last deferred first
RunDefers(sc) ==
    [sc EXCEPT !.closed = sc.closed \o Reverse(sc.defers), !.defers = <<>>]

\* return list, nil (lines 158-162)
ZScanReturn(sc, items) ==
    [RunDefers(sc) EXCEPT !.pc = "done", !.rd = <<>>, !.nread = 0, !.cur = Nil,
                          !.items = <<>>, !.list = Some(items), !.err = NoErr]

\* return nil, err
ZScanFail(sc, err) ==
    [RunDefers(sc) EXCEPT !.pc = "done", !.rd = <<>>, !.nread = 0, !.cur = Nil,
                          !.items = <<>>, !.list = Nil, !.err = err]

\* lines 66-88: the snapshot and the reader are opened and their Close
\* deferred; nothing is read yet.  fault names the store call that fails.
ZScanOpen(options, fault) ==
    LET call == [ZScanIdle EXCEPT !.opts = Some(options), !.fault = fault]
        snapshot == [call EXCEPT !.snap = Snapshot,
                                 !.opened = <<"snapshot">>,
                                 !.defers = <<"snapshot">>]
        asked == [snapshot EXCEPT !.rspec = Some(ZScanReaderSpec(options))]
    IN  IF Fails(call, "Snapshot", 1) THEN ZScanFail(call, ErrSnapshot)
        ELSE IF Fails(call, "Reader", 1) THEN ZScanFail(asked, ErrReader)
        ELSE [asked EXCEPT !.pc = "read",
                           !.rd = Reader(Snapshot, ZScanReaderSpec(options)),
                           !.opened = Append(snapshot.opened, "reader"),
                           !.defers = Append(snapshot.defers, "reader")]

\* lines 84-88
ZScanLimit(options) == IF options.Limit = 0 THEN MaxUint64 ELSE options.Limit

\* ZScanAppend, were an entry outside the score range counted against the
\* limit as the entries appended are
ZScanAppendCountingSkipped(sc, item) ==
    LET e == IndexEntry(sc.snap, Head(sc.rd))
        options == Val(sc.opts)
        zitem == IF IsNil(item) THEN Nil
                 ELSE Some([Item |-> Val(item),
                            Score |-> SetKeyScore(e.key, options.Set),
                            CurrentOffset |-> e.key,
                            Index |-> e.ts])
        next == [sc EXCEPT !.pc = "read", !.rd = Tail(sc.rd),
                           !.nread = sc.nread + 1, !.cur = Nil]
        skip == IF Len(sc.items) + 1 = ZScanLimit(options)
                THEN ZScanReturn(sc, sc.items) ELSE next
    IN  IF ~IsNil(options.Min) /\ IsNil(zitem) THEN ZScanFail(sc, ErrNilDereference)
        ELSE IF ~IsNil(options.Min) /\ Val(zitem).Score < Val(options.Min) THEN skip
        ELSE IF ~IsNil(options.Max) /\ IsNil(zitem) THEN ZScanFail(sc, ErrNilDereference)
        ELSE IF ~IsNil(options.Max) /\ Val(zitem).Score > Val(options.Max) THEN skip
        ELSE IF Len(sc.items) + 1 = ZScanLimit(options)
        THEN ZScanReturn(sc, Append(sc.items, zitem))
        ELSE [next EXCEPT !.items = Append(sc.items, zitem)]

\* lines 135-156: the item of the entry just read (Nil when none was
\* resolved) is wrapped, held against min and max, and appended
ZScanAppend(sc, item) ==
    LET e == IndexEntry(sc.snap, Head(sc.rd))
        options == Val(sc.opts)
        zitem == IF IsNil(item) THEN Nil
                 ELSE Some([Item |-> Val(item),
                            Score |-> SetKeyScore(e.key, options.Set),
                            CurrentOffset |-> e.key,
                            Index |-> e.ts])
        next == [sc EXCEPT !.pc = "read", !.rd = Tail(sc.rd),
                           !.nread = sc.nread + 1, !.cur = Nil]
    IN  IF ~IsNil(options.Min) /\ IsNil(zitem) THEN ZScanFail(sc, ErrNilDereference)
        ELSE IF ~IsNil(options.Min) /\ Val(zitem).Score < Val(options.Min) THEN next
        ELSE IF ~IsNil(options.Max) /\ IsNil(zitem) THEN ZScanFail(sc, ErrNilDereference)
        ELSE IF ~IsNil(options.Max) /\ Val(zitem).Score > Val(options.Max) THEN next
        ELSE IF Len(sc.items) + 1 = ZScanLimit(options)
        THEN ZScanReturn(sc, Append(sc.items, zitem))
        ELSE [next EXCEPT !.items = Append(sc.items, zitem)]

\* ZScanGet, were the reference resolved as of the entry's own transaction
ZScanGetAsAdded(e, refKey) ==
    LET ts == LastTs(e.ts, refKey)
    IN  [err |-> NoErr, item |-> [Key |-> refKey, Value |-> txs[ts][refKey], Index |-> ts]]

\* lines 127-132: an unpinned reference is resolved by d.Get, against the
\* store as it is now; e is the entry being resolved
ZScanGet(e, refKey) == Get(refKey)

\* ZScanRead, were an entry whose reference cannot be resolved passed over
ZScanReadSkipping(sc, d) ==
    LET next == [sc EXCEPT !.pc = "read", !.rd = Tail(sc.rd),
                           !.nread = sc.nread + 1, !.cur = Nil]
    IN  IF Fails(sc, "Read", sc.nread + 1) THEN [call |-> ZScanFail(sc, ErrRead), dtx |-> d]
        ELSE IF sc.rd = <<>> THEN [call |-> ZScanReturn(sc, sc.items), dtx |-> d]
        ELSE LET e == IndexEntry(sc.snap, Head(sc.rd))
                 refVal == ReadValueAt(e.val.vOff, e.val.hVal).val
             IN  IF HasPrefix(e.key, SortedSetSeparator)
                 THEN LET ref == UnwrapIndexReference(refVal)
                      IN  IF ref.flag = 1
                          THEN LET r == ReadTx(ref.index)
                               IN  IF r.err # NoErr
                                   THEN [call |-> next, dtx |-> d]
                                   ELSE [call |-> [sc EXCEPT !.pc = "readValue", !.cur = Some(ref)],
                                         dtx |-> r.tx]
                          ELSE LET g == ZScanGet(e, ref.key)
                               IN  IF g.err # NoErr
                                   THEN [call |-> next, dtx |-> d]
                                   ELSE [call |-> ZScanAppend(sc, Some(g.item)), dtx |-> d]
                 ELSE [call |-> ZScanAppend(sc, Nil), dtx |-> d]

\* lines 91-120 and 127-133: one reader.Read() and what follows it up to
\* the next call that another goroutine can interleave with.  An error of
\* Read other than the end of the entries is returned (lines 95-97); the
\* error of ReadValueAt is assigned and never looked at.
ZScanRead(sc, d) ==
    IF Fails(sc, "Read", sc.nread + 1) THEN [call |-> ZScanFail(sc, ErrRead), dtx |-> d]
    ELSE IF sc.rd = <<>> THEN [call |-> ZScanReturn(sc, sc.items), dtx |-> d]
    ELSE LET e == IndexEntry(sc.snap, Head(sc.rd))
             refVal == ReadValueAt(e.val.vOff, e.val.hVal).val
         IN  IF HasPrefix(e.key, SortedSetSeparator)
             THEN LET ref == UnwrapIndexReference(refVal)
                  IN  IF ref.flag = 1
                      THEN LET r == ReadTx(ref.index)
                           IN  IF r.err # NoErr
                               THEN [call |-> ZScanFail(sc, r.err), dtx |-> d]
                               ELSE [call |-> [sc EXCEPT !.pc = "readValue", !.cur = Some(ref)],
                                     dtx |-> r.tx]
                      ELSE LET g == ZScanGet(e, ref.key)
                           IN  IF g.err # NoErr
                               THEN [call |-> ZScanFail(sc, g.err), dtx |-> d]
                               ELSE [call |-> ZScanAppend(sc, Some(g.item)), dtx |-> d]
             ELSE [call |-> ZScanAppend(sc, Nil), dtx |-> d]

\* ZScanReadValue, were the pin ignored and the current value read
ZScanReadValueLatest(sc, d) ==
    [call |-> ZScanAppend(sc, Some(Get(Val(sc.cur).key).item)), dtx |-> d]

\* lines 121-126: the pinned value, read from the transaction the scratch holds
ZScanReadValue(sc, d) ==
    LET v == ReadValue(d, Val(sc.cur).key)
    IN  IF v.err # NoErr
        THEN [call |-> ZScanFail(sc, v.err), dtx |-> d]
        ELSE [call |-> ZScanAppend(sc, Some([Key |-> Val(sc.cur).key, Value |-> v.val,
                                             Index |-> Val(sc.cur).index])),
              dtx |-> d]

ZScanStep(sc, d) == IF sc.pc = "readValue" THEN ZScanReadValue(sc, d) ELSE ZScanRead(sc, d)

\* the loop of lines 90-156 run to its end without interruption
RECURSIVE ZScanLoop(_, _)
ZScanLoop(sc, d) ==
    IF sc.pc = "done" THEN [call |-> sc, dtx |-> d]
    ELSE LET n == ZScanStep(sc, d) IN ZScanLoop(n.call, n.dtx)

\* ZScan(options), run without interruption, with `fault` the store call
\* that fails
ZScanCall(options, fault, d) == ZScanLoop(ZScanOpen(options, fault), d)

\* ZScan(options) when every call into the store succeeds
ZScanRun(options, d) == ZScanCall(options, Nil, d)

----------------------------------------------------------------------------
(* SafeZAdd *)

ErrNotSupported == "Functionality not yet supported: SafeZAdd"

SafeZAddIdle == [pc |-> "idle", opts |-> Nil, proof |-> Nil, err |-> NoErr]

\* SafeZAddCall, were the request handed on to ZAdd's commit with a proof
\* of the new transaction as the result
SafeZAddCommitting(opts) ==
    LET z == ZAddBuilt([ZAddIdle EXCEPT !.opts = Some(opts.Zopts)], opts.Zopts.Index)
        id == Len(txs) + 1
    IN  [call |-> [pc |-> "done", opts |-> Some(opts),
                   proof |-> Some([Index |-> id, Root |-> Alh(id)]), err |-> NoErr],
         txs |-> IF Len(txs) < MaxTx THEN Commit((z.ik :> z.ref)) ELSE txs]

\* lines 166-169: the call as returned and the store after it
SafeZAddCall(opts) ==
    [call |-> [pc |-> "done", opts |-> Some(opts), proof |-> Nil, err |-> ErrNotSupported],
     txs |-> txs]

----------------------------------------------------------------------------
(* Requests *)

\* schema.ZScanOptions; a cursor is taken from the keys the store holds
ZScanOptions ==
    [Set : {SharedSet}, Min : {Nil} \cup {Some(s) : s \in MinScores},
     Max : {Nil} \cup {Some(s) : s \in MaxScores},
     Offset : {<<>>} \cup KeysAt(Len(txs)), Limit : 0..MaxLimit, Reverse : BOOLEAN]

\* the requests for the whole set, in either direction
ZScanWholeSet == {o \in ZScanOptions : IsNil(o.Min) /\ IsNil(o.Max) /\ o.Offset = <<>>}

\* the request of the scans during which a call into the store fails: the
\* whole set with no limit, in the direction in which the reader yields it
ZScanUpwards == {o \in ZScanWholeSet : o.Limit = 0 /\ o.Reverse}

\* the pins a request may carry: none, or a transaction id
OptPins == {Nil} \cup {Some(t) : t \in 1..MaxTx}

\* schema.ZAddOptions
ZAddOptions == [Key : PlainKeys, Set : {SharedSet}, Score : Scores, Index : OptPins]

\* schema.SafeZAddOptions: the ZAdd request to be proven
SafeZAddOptions == [Zopts : {o \in ZAddOptions : o.Score >= 0}]

\* the store calls of a ZScan that may fail: Snapshot, snapshot.Reader, and
\* the first or the second reader.Read
StoreFaults ==
    {[call |-> "Snapshot", nth |-> 1], [call |-> "Reader", nth |-> 1],
     [call |-> "Read", nth |-> 1], [call |-> "Read", nth |-> 2]}

\* no call has been started and not yet returned to its caller
Idle == scan.pc = "idle" /\ zadd.pc = "idle" /\ safezadd.pc = "idle"

----------------------------------------------------------------------------
(* Operations, each call run from its first line to its return *)

Init ==
    /\ txs = <<>>
    /\ corrupt = {}
    /\ dtx = 0
    /\ scan = ZScanIdle
    /\ zadd = ZAddIdle
    /\ safezadd = SafeZAddIdle

\* a plain write of a member key: one transaction {key: value}.  The value
\* is stamped with the transaction, so that every write is told apart.
Set(key) ==
    /\ Len(txs) < MaxTx
    /\ scan.pc # "done" /\ zadd.pc # "done" /\ safezadd.pc # "done"
    /\ txs' = Commit((key :> PlainValue(Len(txs) + 1)))
    /\ UNCHANGED <<corrupt, dtx, scan, zadd, safezadd>>

\* ZAdd, were the commit made whatever the validation returned
ZAddCommitRegardless(zaddOpts, fails) ==
    /\ Idle
    /\ ~fails
    /\ Len(txs) < MaxTx
    /\ LET g == getSortedSetKeyVal(zaddOpts, dtx)
           id == Len(txs) + 1
       IN  /\ dtx' = g.dtx
           /\ txs' = Commit((g.call.ik :> g.call.ref))
           /\ zadd' = IF g.call.pc = "done" THEN g.call
                      ELSE ZAddReturn(g.call, Some([Index |-> id, Root |-> Alh(id)]), NoErr)
    /\ UNCHANGED <<corrupt, scan, safezadd>>

\* lines 19-37: the validation, then the commit unless the validation failed
ZAdd(zaddOpts, fails) ==
    /\ Idle
    /\ LET g == getSortedSetKeyVal(zaddOpts, dtx)
       IN  /\ dtx' = g.dtx
           /\ IF g.call.pc = "done"
              THEN /\ ~fails
                   /\ zadd' = g.call
                   /\ txs' = txs
              ELSE LET c == ZAddCommit(g.call, fails)
                   IN  /\ fails \/ Len(txs) < MaxTx
                       /\ zadd' = c.call
                       /\ txs' = c.txs
    /\ UNCHANGED <<corrupt, scan, safezadd>>

\* fault: the store call that fails during the scan, Nil when none does
ZScan(options, fault) ==
    /\ Idle
    /\ LET r == ZScanCall(options, fault, dtx)
       IN  /\ scan' = r.call
           /\ dtx' = r.dtx
    /\ UNCHANGED <<txs, corrupt, zadd, safezadd>>

SafeZAdd(opts) ==
    /\ Idle
    /\ LET r == SafeZAddCall(opts)
       IN  /\ safezadd' = r.call
           /\ txs' = r.txs
    /\ UNCHANGED <<corrupt, dtx, scan, zadd>>

\* the caller takes the result of a call that returned
Return ==
    /\ scan.pc = "done" \/ zadd.pc = "done" \/ safezadd.pc = "done"
    /\ scan' = IF scan.pc = "done" THEN ZScanIdle ELSE scan
    /\ zadd' = IF zadd.pc = "done" THEN ZAddIdle ELSE zadd
    /\ safezadd' = IF safezadd.pc = "done" THEN SafeZAddIdle ELSE safezadd
    /\ UNCHANGED <<txs, corrupt, dtx>>

Next ==
    \/ \E key \in PlainKeys : Set(key)
    \/ \E zaddOpts \in ZAddOptions, fails \in BOOLEAN : ZAdd(zaddOpts, fails)
    \/ \E options \in ZScanOptions : ZScan(options, Nil)
    \/ \E opts \in SafeZAddOptions : SafeZAdd(opts)
    \/ Return

Spec == Init /\ [][Next]_vars

----------------------------------------------------------------------------
(* Damage to the value log between calls *)

\* number of value-log slots that may be damaged
MaxCorrupt == 1

\* what a damaged slot may read as: a reference to member key <<2>>,
\* unpinned or pinned to the first transaction
RefPayloads == {WrapIndexReference(<<2>>, idx) : idx \in {Nil, Some(1)}}

\* the bytes of the slot that holds the payload of entry k of transaction
\* ts change on disk; the index keeps the hash of what was committed
Corrupt(ts, k, bytes) ==
    /\ Idle
    /\ Cardinality(corrupt) < MaxCorrupt
    /\ ts \in 1..Len(txs) /\ k \in DOMAIN txs[ts]
    /\ HasPrefix(k, SortedSetSeparator)
    /\ bytes # txs[ts][k]
    /\ \A c \in corrupt : c.off # <<ts, k>>
    /\ corrupt' = corrupt \cup {[off |-> <<ts, k>>, bytes |-> bytes]}
    /\ UNCHANGED <<txs, dtx, scan, zadd, safezadd>>

\* writes, scans of the whole set, damage to the value log, and scans
\* during which a call into the store fails
NextFault ==
    \/ \E key \in PlainKeys : Set(key)
    \/ \E zaddOpts \in ZAddOptions, fails \in BOOLEAN : ZAdd(zaddOpts, fails)
    \/ \E options \in ZScanWholeSet : ZScan(options, Nil)
    \/ \E ts \in 1..MaxTx, k \in KeysAt(Len(txs)), bytes \in RefPayloads : Corrupt(ts, k, bytes)
    \/ \E options \in ZScanUpwards, fault \in StoreFaults : ZScan(options, Some(fault))
    \/ Return

SpecFault == Init /\ [][NextFault]_vars

----------------------------------------------------------------------------
(* Two sets, the name of one a proper prefix of the name of the other *)

\* a set whose name extends SharedSet by one byte
LongSet == SharedSet \o <<4>>

SetNames == {SharedSet, LongSet}

\* schema.ZAddOptions and schema.ZScanOptions (the whole set) over both sets
ZAddOptionsOfSets == [Key : PlainKeys, Set : SetNames, Score : Scores, Index : OptPins]
ZScanOptionsOfSets ==
    [Set : SetNames, Min : {Nil}, Max : {Nil}, Offset : {<<>>},
     Limit : 0..MaxLimit, Reverse : BOOLEAN]

NextSets ==
    \/ \E key \in PlainKeys : Set(key)
    \/ \E zaddOpts \in ZAddOptionsOfSets, fails \in BOOLEAN : ZAdd(zaddOpts, fails)
    \/ \E options \in ZScanOptionsOfSets : ZScan(options, Nil)
    \/ Return

SpecSets == Init /\ [][NextSets]_vars

----------------------------------------------------------------------------
(* Concurrent callers: a call is a sequence of steps, one per call into   *)
(* the store that another goroutine can interleave with.                  *)

ZScanBegin(options) ==
    /\ scan.pc = "idle"
    /\ scan' = ZScanOpen(options, Nil)
    /\ UNCHANGED <<txs, corrupt, dtx, zadd, safezadd>>

ZScanNext ==
    /\ scan.pc \in {"read", "readValue"}
    /\ LET n == ZScanStep(scan, dtx)
       IN  /\ scan' = n.call
           /\ dtx' = n.dtx
    /\ UNCHANGED <<txs, corrupt, zadd, safezadd>>

ZAddBegin(zaddOpts) ==
    /\ zadd.pc = "idle"
    /\ LET b == getSortedSetKeyValBegin(zaddOpts, dtx)
       IN  /\ zadd' = b.call
           /\ dtx' = b.dtx
    /\ UNCHANGED <<txs, corrupt, scan, safezadd>>

ZAddCheck ==
    /\ zadd.pc = "readValue"
    /\ LET c == getSortedSetKeyValCheck(zadd, dtx)
       IN  /\ zadd' = c.call
           /\ dtx' = c.dtx
    /\ UNCHANGED <<txs, corrupt, scan, safezadd>>

ZAddStore(fails) ==
    /\ zadd.pc = "commit"
    /\ fails \/ Len(txs) < MaxTx
    /\ LET c == ZAddCommit(zadd, fails)
       IN  /\ zadd' = c.call
           /\ txs' = c.txs
    /\ UNCHANGED <<corrupt, dtx, scan, safezadd>>

NextConc ==
    \/ \E key \in PlainKeys : Set(key)
    \/ \E options \in ZScanWholeSet : ZScanBegin(options)
    \/ ZScanNext
    \/ \E zaddOpts \in ZAddOptions : ZAddBegin(zaddOpts)
    \/ ZAddCheck
    \/ \E fails \in BOOLEAN : ZAddStore(fails)
    \/ Return

SpecConc == Init /\ [][NextConc]_vars

----------------------------------------------------------------------------
(* What the claims speak of *)

\* the items of the list the last ZScan returned (none when it failed)
Returned ==
    IF scan.pc = "done" /\ ~IsNil(scan.list)
    THEN {Val(Val(scan.list)[n]) : n \in {m \in 1..Len(Val(scan.list)) : ~IsNil(Val(scan.list)[m])}}
    ELSE {}

\* the reference payload ZAdd committed for the entry behind an item
Committed(zi) == txs[zi.Index][zi.CurrentOffset]

\* the transactions of the log that wrote key k
Writes(k) == {i \in 1..Len(txs) : k \in DOMAIN txs[i]}

C2_UnpinnedResolvesToLatest ==
    \A zi \in Returned : \A K \in PlainKeys :
        Committed(zi) = WrapIndexReference(K, Nil)
            => /\ zi.Item.Key = K
               /\ zi.Item.Index \in Writes(K)
               /\ \A i \in Writes(K) : i <= zi.Item.Index
               /\ zi.Item.Value = txs[zi.Item.Index][K]

\* a scan returned an unpinned entry of a key overwritten after the ZAdd
C2_Witness ==
    \E zi \in Returned : \E K \in PlainKeys :
        /\ Committed(zi) = WrapIndexReference(K, Nil)
        /\ \E i \in Writes(K) : i > zi.Index
        /\ \E i \in Writes(K) : i < zi.Index /\ txs[i][K] # zi.Item.Value

\* the composite keys of the entries the store holds that were added to set S
EntriesOf(S) ==
    {k \in KeysAt(Len(txs)) :
        \E K \in PlainKeys, sc \in Scores, idx \in OptPins : k = BuildSetKey(K, S, sc, idx)}

\* the score an entry of set S was added with
AddedScore(k, S) ==
    CHOOSE sc \in Scores : \E K \in PlainKeys, idx \in OptPins : k = BuildSetKey(K, S, sc, idx)

\* the last ZScan returned, and was called with these options
Scanned == scan.pc = "done"
ScanOpts == Val(scan.opts)

\* the composite keys of the items returned, in order
ReturnedKeys == [n \in 1..Len(Val(scan.list)) |-> Val(Val(scan.list)[n]).CurrentOffset]
ReturnedScores == [n \in 1..Len(Val(scan.list)) |-> Val(Val(scan.list)[n]).Score]

\* C3: with no min, max, cursor or limit, ZScan returns the entries of the
\* set in ascending score order when reverse = false and in descending score
\* order when reverse = true.
C3_ScanOrder ==
    (/\ Scanned
     /\ IsNil(ScanOpts.Min) /\ IsNil(ScanOpts.Max)
     /\ ScanOpts.Offset = <<>> /\ ScanOpts.Limit = 0)
        => /\ ~IsNil(scan.list)
           /\ {ReturnedKeys[n] : n \in DOMAIN ReturnedKeys} = EntriesOf(ScanOpts.Set)
           /\ \A m, n \in DOMAIN ReturnedScores :
                m < n => IF ScanOpts.Reverse
                         THEN ReturnedScores[m] >= ReturnedScores[n]
                         ELSE ReturnedScores[m] <= ReturnedScores[n]

\* C4: with min and max, no cursor and no limit, ZScan returns exactly the
\* entries of the set whose score s has min <= s <= max, in either direction.
C4_RangeExact ==
    (/\ Scanned
     /\ ~IsNil(ScanOpts.Min) /\ ~IsNil(ScanOpts.Max)
     /\ ScanOpts.Offset = <<>> /\ ScanOpts.Limit = 0)
        => /\ ~IsNil(scan.list)
           /\ {ReturnedKeys[n] : n \in DOMAIN ReturnedKeys}
                = {k \in EntriesOf(ScanOpts.Set) :
                      /\ Val(ScanOpts.Min) <= AddedScore(k, ScanOpts.Set)
                      /\ AddedScore(k, ScanOpts.Set) <= Val(ScanOpts.Max)}

\* what the same request returns with no cursor and no limit
Unbounded == ZScanRun([ScanOpts EXCEPT !.Offset = <<>>, !.Limit = 0], dtx).call.list

\* C5: a ZScan with limit 1 whose cursor is the raw key of item n of the
\* unbounded result returns item n + 1 of it (nothing after the last).
C5_Pagination ==
    (/\ Scanned
     /\ ScanOpts.Limit = 1 /\ ScanOpts.Offset # <<>>
     /\ ~IsNil(Unbounded))
        => \A n \in 1..Len(Val(Unbounded)) :
              Val(Val(Unbounded)[n]).CurrentOffset = ScanOpts.Offset
                  => scan.list = Some(IF n < Len(Val(Unbounded))
                                      THEN <<Val(Unbounded)[n + 1]>> ELSE <<>>)

\* C6: a commit made after ZScan took its snapshot does not show in the
\* scan's result: the entries returned, and the value each unpinned entry
\* resolves to, are those of the store when the snapshot was taken.
C6_SnapshotIsolation ==
    Scanned =>
        \A zi \in Returned :
            /\ zi.Index <= scan.snap
            /\ \A K \in PlainKeys :
                 Committed(zi) = WrapIndexReference(K, Nil)
                     => /\ zi.Item.Index \in Writes(K)
                        /\ zi.Item.Index <= scan.snap
                        /\ \A i \in Writes(K) : i <= scan.snap => i <= zi.Item.Index
                        /\ zi.Item.Value = txs[zi.Item.Index][K]

\* C7: when ReadValueAt reports a hash mismatch for an entry, ZScan returns
\* an error and no list: no item returned was built from a slot whose bytes
\* fail the hash check.
C7_HashMismatchSurfaced ==
    Scanned =>
        \A zi \in Returned :
            ReadValueAt(<<zi.Index, zi.CurrentOffset>>, Hash(Committed(zi))).err = NoErr

\* the last ZAdd returned, and was called with these options
Added == zadd.pc = "done"
AddOpts == Val(zadd.opts)

\* C8: ZAdd without a pin for a member key that was never written fails
\* with ErrIndexKeyMismatch.
C8_UnpinnedAbsentKeyMismatch ==
    (Added /\ IsNil(AddOpts.Index) /\ Writes(AddOpts.Key) = {})
        => zadd.err = ErrIndexKeyMismatch /\ IsNil(zadd.root)

CurrentIn(log, k) ==
    LET w == {i \in 1..Len(log) : k \in DOMAIN log[i]}
    IN  IF w = {} THEN Nil
        ELSE LET ts == CHOOSE i \in w : \A j \in w : j <= i
             IN  Some([Value |-> log[ts][k], Index |-> ts])

\* C10: a ZAdd that succeeds appends one transaction holding exactly one
\* pair, composite key -> reference payload; the transactions before it, the
\* current value of every member key, every other entry and the payload of
\* every entry stay as they were.
C10_ZAddFrame ==
    [][(zadd.pc = "idle" /\ zadd'.pc = "done" /\ zadd'.err = NoErr)
        => LET o == Val(zadd'.opts)
               ik == BuildSetKey(o.Key, o.Set, o.Score, o.Index)
           IN  /\ Len(txs') = Len(txs) + 1
               /\ SubSeq(txs', 1, Len(txs)) = txs
               /\ DOMAIN txs'[Len(txs')] = {ik}
               /\ txs'[Len(txs')][ik] = WrapIndexReference(o.Key, o.Index)
               /\ \A k \in (PlainKeys \cup KeysAt(Len(txs))) \ {ik} :
                    CurrentIn(txs', k) = CurrentIn(txs, k)
               /\ \A K \in PlainKeys : CurrentIn(txs', K) = CurrentIn(txs, K)
               /\ \A k \in KeysAt(Len(txs)) :
                    Val(CurrentIn(txs', k)).Value = Val(CurrentIn(txs, k)).Value]_vars

\* a ZAdd succeeded on a store that already held an entry and a member key
C10_Witness ==
    /\ Added /\ zadd.err = NoErr
    /\ \E i \in 1..(Len(txs) - 1) : \E k \in DOMAIN txs[i] : HasPrefix(k, SortedSetSeparator)

\* what the same request returns with no limit
Unlimited == ZScanRun([ScanOpts EXCEPT !.Limit = 0], dtx).call.list

\* the score in key k is within the min and max of request o (a key that
\* is no sorted-set key has no score to hold against them)
InRange(k, o) ==
    \/ ~HasPrefix(k, SortedSetSeparator)
    \/ /\ IsNil(o.Min) \/ SetKeyScore(k, o.Set) >= Val(o.Min)
       /\ IsNil(o.Max) \/ SetKeyScore(k, o.Set) <= Val(o.Max)

\* the keys the reader of the last scan had to yield
Yielded == Reader(scan.snap, Val(scan.rspec))

\* C11: a ZScan with limit L > 0 returns the first min(L, n) items of what
\* the same request returns with limit 0, and with limit 0 it returns all
\* n, n being the number of entries the reader yields whose score is within
\* min and max: an entry outside the range does not count against the limit.
C11_LimitIsPrefix ==
    (Scanned /\ IsNil(scan.fault) /\ ~IsNil(Unlimited))
        => LET all == Val(Unlimited)
               n == Cardinality({i \in DOMAIN Yielded : InRange(Yielded[i], ScanOpts)})
               L == ScanOpts.Limit
           IN  /\ Len(all) = n
               /\ scan.list = Some(IF L = 0 THEN all
                                   ELSE SubSeq(all, 1, IF L < n THEN L ELSE n))

\* a scan with a limit returned fewer items than the same request returns
\* without one
C11_Witness ==
    /\ Scanned /\ IsNil(scan.fault) /\ ~IsNil(Unlimited)
    /\ ScanOpts.Limit > 0
    /\ Len(Val(Unlimited)) > ScanOpts.Limit
    /\ ~IsNil(scan.list) /\ Len(Val(scan.list)) = ScanOpts.Limit

\* a scan with a limit passed over an entry below min and returned the next
C11_SkippedUnderLimit ==
    /\ Scanned /\ IsNil(scan.fault) /\ ~IsNil(scan.list)
    /\ ScanOpts.Limit > 0 /\ Len(Val(scan.list)) = ScanOpts.Limit
    /\ ~InRange(Yielded[1], ScanOpts)

\* the reference that the bytes now on disk give for entry k of a snapshot
RefOnDisk(snap, k) ==
    LET e == IndexEntry(snap, k)
    IN  UnwrapIndexReference(ReadValueAt(e.val.vOff, e.val.hVal).val)

\* the key a reference names is absent at its resolution point: not in the
\* pinned transaction, or not in the store now
Absent(ref) ==
    IF ref.flag = 1
    THEN ~(ref.index \in 1..Len(txs) /\ ref.key \in DOMAIN txs[ref.index])
    ELSE ref.key \notin KeysAt(Len(txs))

\* how many of the keys ys a scan with request o reads when every entry
\* resolves: all of them, or those up to the entry that reaches the limit
\* (got: the items collected so far)
RECURSIVE ReachedLen(_, _, _)
ReachedLen(ys, o, got) ==
    IF ys = <<>> THEN 0
    ELSE IF ~InRange(Head(ys), o) THEN 1 + ReachedLen(Tail(ys), o, got)
    ELSE IF got + 1 = ZScanLimit(o) THEN 1
    ELSE 1 + ReachedLen(Tail(ys), o, got + 1)

\* the last scan came to an entry whose referenced key is absent
ReachedAbsent ==
    \E i \in 1..ReachedLen(Yielded, ScanOpts, 0) :
        /\ HasPrefix(Yielded[i], SortedSetSeparator)
        /\ Absent(RefOnDisk(scan.snap, Yielded[i]))

C12_PinnedAbsent ==
    /\ Scanned /\ IsNil(scan.fault) /\ IsNil(scan.list)
    /\ \E i \in 1..ReachedLen(Yielded, ScanOpts, 0) :
          /\ HasPrefix(Yielded[i], SortedSetSeparator)
          /\ RefOnDisk(scan.snap, Yielded[i]).flag = 1
          /\ Absent(RefOnDisk(scan.snap, Yielded[i]))

\* C13: SafeZAdd returns the 'not yet supported' error and no proof for
\* every request, and commits nothing to the store.
C13_SafeZAddUnsupported ==
    [][(safezadd.pc = "idle" /\ safezadd'.pc = "done")
        => /\ safezadd'.err = ErrNotSupported
           /\ IsNil(safezadd'.proof)
           /\ txs' = txs]_vars

\* SafeZAdd returned for a request that ZAdd accepts and could commit
C13_Witness ==
    /\ safezadd.pc = "done"
    /\ Len(txs) < MaxTx
    /\ getSortedSetKeyVal(Val(safezadd.opts).Zopts, dtx).call.pc = "commit"

\* C14: a key the reader yields that does not start with the sorted-set
\* separator is passed over: the score filter is not evaluated against the
\* absent item, and no absent (nil) item is appended to the result.
C14_NonSetKeySkipped ==
    Scanned =>
        /\ scan.err # ErrNilDereference
        /\ ~IsNil(scan.list) => \A n \in 1..Len(Val(scan.list)) : ~IsNil(Val(scan.list)[n])

\* C15: under any interleaving of ZAdd and ZScan calls, the ReadValue of a
\* pinned resolution (ZScan) or of a pinned validation (ZAdd) reads the
\* transaction that the same call loaded with ReadTx: at that step the
\* scratch d.tx holds the call's own pinned transaction, not one loaded by
\* another call.
C15_ReadValueReadsOwnTx ==
    [][/\ (scan.pc = "readValue" /\ scan' # scan) => dtx = Val(scan.cur).index
       /\ (zadd.pc = "readValue" /\ zadd' # zadd) => dtx = Val(Val(zadd.opts).Index)]_vars

\* a pinned ZAdd was accepted though its pinned transaction lacks the key
C15_ZAddAcceptedOnOtherTx ==
    /\ Added /\ zadd.err = NoErr /\ ~IsNil(AddOpts.Index)
    /\ Val(AddOpts.Index) \notin Writes(AddOpts.Key)

\* a scan returned, for a pinned entry, a value that is not the one of the
\* pinned transaction
C15_ScanResolvedOnOtherTx ==
    \E zi \in Returned : \E K \in PlainKeys, T \in 1..MaxTx :
        /\ Committed(zi) = WrapIndexReference(K, Some(T))
        /\ T \in Writes(K)
        /\ zi.Item.Value # txs[T][K]

\* C16: a ZScan over set S returns only entries that were added with set
\* exactly S, each with the score it was added with, also when the store
\* holds entries of a set whose name has S as a proper prefix.
C16_OnlyOwnSet ==
    Scanned =>
        \A zi \in Returned :
            /\ zi.CurrentOffset \in EntriesOf(ScanOpts.Set)
            /\ zi.Score = AddedScore(zi.CurrentOffset, ScanOpts.Set)

\* C17: when a ZScan returns, on whatever path, every snapshot and reader
\* it opened has been closed, once, and the reader before its snapshot.
C17_ResourcesClosed ==
    Scanned =>
        /\ scan.defers = <<>>
        /\ Len(scan.closed) = Len(scan.opened)
        /\ {scan.closed[i] : i \in DOMAIN scan.closed} = {scan.opened[i] : i \in DOMAIN scan.opened}
        /\ \A i, j \in DOMAIN scan.closed :
              (scan.closed[i] = "reader" /\ scan.closed[j] = "snapshot") => i < j

\* a scan failed on a reader.Read after it had collected an item
C17_Witness ==
    /\ Scanned /\ scan.err = ErrRead
    /\ Fails(scan, "Read", 2)
    /\ scan.opened = <<"snapshot", "reader">>

\* the other ways out of a scan: the end of the entries, the limit, a
\* reader that cannot be created, a snapshot that cannot be taken, and a
\* reference that cannot be resolved
C17_EndOfEntries ==
    /\ Scanned /\ ~IsNil(scan.list) /\ ScanOpts.Limit = 0 /\ Len(Val(scan.list)) > 0
C17_LimitReached ==
    /\ Scanned /\ ~IsNil(scan.list) /\ ScanOpts.Limit > 0
    /\ Len(Val(scan.list)) = ScanOpts.Limit /\ Len(Yielded) > ScanOpts.Limit
C17_ReaderFailed ==
    /\ Scanned /\ scan.err = ErrReader /\ scan.opened = <<"snapshot">>
C17_SnapshotFailed ==
    /\ Scanned /\ scan.err = ErrSnapshot /\ scan.opened = <<>>
C17_ResolutionFailed ==
    /\ Scanned /\ scan.err = ErrKeyNotFound /\ scan.opened = <<"snapshot", "reader">>

\* C18: the start key ZScan hands to the reader is the cursor when one is
\* given, whatever min, max and reverse are; else the set prefix followed
\* by the encoded min when reverse = false and min is supplied; else the
\* set prefix followed by the encoded max when reverse = true and max is
\* supplied; else the set prefix alone.
C18_StartKey ==
    (Scanned /\ ~IsNil(scan.rspec))
        => Val(scan.rspec).InitialKey =
              IF ScanOpts.Offset # <<>> THEN ScanOpts.Offset
              ELSE IF ~ScanOpts.Reverse /\ ~IsNil(ScanOpts.Min)
              THEN SortedSetSeparator \o ScanOpts.Set \o EncodeScore(Val(ScanOpts.Min))
              ELSE IF ScanOpts.Reverse /\ ~IsNil(ScanOpts.Max)
              THEN SortedSetSeparator \o ScanOpts.Set \o EncodeScore(Val(ScanOpts.Max))
              ELSE SortedSetSeparator \o ScanOpts.Set

\* a scan was given a cursor together with min and max
C18_Witness ==
    /\ Scanned /\ ~IsNil(scan.rspec)
    /\ ScanOpts.Offset # <<>>
    /\ ~IsNil(ScanOpts.Min) /\ ~IsNil(ScanOpts.Max)
    /\ Val(scan.rspec).InitialKey = ScanOpts.Offset

\* a scan with reverse = true was given min and max and no cursor
C18_ReverseWithMinAndMax ==
    /\ Scanned /\ ~IsNil(scan.rspec)
    /\ ScanOpts.Offset = <<>> /\ ScanOpts.Reverse
    /\ ~IsNil(ScanOpts.Min) /\ ~IsNil(ScanOpts.Max)

\* the validation of the last ZAdd passed (the store is as the validation
\* saw it when the commit failed)
Validated == getSortedSetKeyVal(AddOpts, dtx).call.pc = "commit"

\* C19: when the store's commit fails during ZAdd, ZAdd returns the store's
\* error itself, not wrapped and not replaced, and no result.
C19_CommitErrorVerbatim ==
    (Added /\ zadd.err # NoErr /\ Validated)
        => zadd.err = ErrCommit /\ IsNil(zadd.root)

\* C20: a ZAdd whose validation fails (member key absent, pinned
\* transaction unreadable, key not in the pinned transaction) commits
\* nothing: the store's transactions, and so the committed pairs and the
\* last transaction id, are after the call as before it, and the call
\* returns an error and no result.
C20_FailedValidationCommitsNothing ==
    [][(/\ zadd.pc = "idle" /\ zadd'.pc = "done"
        /\ getSortedSetKeyVal(Val(zadd'.opts), dtx).call.pc = "done")
          => /\ txs' = txs
             /\ zadd'.err # NoErr /\ IsNil(zadd'.root)]_vars

\* a ZAdd pinned to a transaction without the key failed on a store that
\* could take a commit
C20_Witness ==
    /\ Added /\ zadd.err = ErrIndexKeyMismatch
    /\ 0 < Len(txs) /\ Len(txs) < MaxTx

\* the other failures of the validation: key never written, pinned
\* transaction not in the store
C20_KeyAbsent ==
    Added /\ zadd.err = ErrKeyNotFound /\ 0 < Len(txs) /\ Len(txs) < MaxTx
C20_TxUnreadable ==
    Added /\ zadd.err = ErrTxNotFound /\ 0 < Len(txs) /\ Len(txs) < MaxTx

====
